---- MODULE Spec2Model ----
(***************************************************************************)
(* A state-machine model of src/bot.py, the Telegram bot "Samuil".         *)
(*                                                                         *)
(* Texts.  TLC has no characters, so a Python str is a sequence of chunks. *)
(* An inbound text is spelled one chunk per letter; the Cyrillic letters   *)
(* of the source are transliterated ("самуил" is s,a,m,u,i,l), a Latin     *)
(* letter is written with the prefix "lat_".  A fixed string of the source *)
(* (a fallback, a prompt block) is one chunk naming it.  Concatenation,    *)
(* str.lower(), the `in` substring test and str.strip() are computed on    *)
(* these sequences.  Python None is the value None below, which differs    *)
(* from every str, the empty str <<>> included.                            *)
(*                                                                         *)
(* Scheduling.  main() builds the Application without concurrent_updates,  *)
(* so updates are handled one after the other: one handler is in flight at *)
(* a time.  The jobs of the job queue run on the same event loop and       *)
(* interleave with a handler at every await.                               *)
(***************************************************************************)
EXTENDS Integers, Sequences, FiniteSets, TLC

\* ------------------------------------------------------------------ bounds

\* inbound updates dispatched in one behaviour of SpecUpdates
MaxUpdates == 2
\* inbound updates dispatched in one behaviour of Spec
MaxLiveUpdates == 1
\* last calendar day the clock reaches (days are 0..MaxDay)
MaxDay == 0
\* updates handled in a run of SpecMem, enough exchanges to overfill a history
MaxMemUpdates == 17
\* calls of the backend that fail in a run of SpecMem
MaxMemFailures == 1
\* calls of a job callback at one time of a day beyond the first, in SpecJobs
MaxRetriggers == 1
\* calls of setup_scheduled_jobs in a run of SpecJobs
MaxSetupCalls == 3
\* updates handled in a run of SpecRecap, enough to make the recap sample
MaxRecapUpdates == 11
\* the updates of a run in which people talk to Samuil
MaxTalkUpdates == 2
\* the updates Telegram delivers in a run of SpecDispatch
MaxReceived == 3

\* ------------------------------------------------------------- str helpers

None == <<"<None>">>

\* str.lower(), letter by letter
LowerChar(c) ==
    CASE c = "S" -> "s"
      [] c = "M" -> "m"
      [] c = "P" -> "p"
      [] c = "K" -> "k"
      [] c = "V" -> "v"
      [] c = "lat_K" -> "lat_k"
      [] OTHER -> c

Lower(t) == [i \in 1..Len(t) |-> LowerChar(t[i])]

\* `pat in t`
Contains(t, pat) ==
    \E i \in 0..(Len(t) - Len(pat)) : SubSeq(t, i + 1, i + Len(pat)) = pat

IsSpace(c) == c \in {" ", "\n"}

\* str.strip(): the text without its leading and trailing whitespace
RECURSIVE LStrip(_)
LStrip(t) == IF t # <<>> /\ IsSpace(Head(t)) THEN LStrip(Tail(t)) ELSE t

RECURSIVE RStrip(_)
RStrip(t) ==
    IF t # <<>> /\ IsSpace(t[Len(t)]) THEN RStrip(SubSeq(t, 1, Len(t) - 1)) ELSE t

Strip(t) == RStrip(LStrip(t))

\* the last n elements of a list: s[-n:] for n > 0
LastN(s, n) == IF Len(s) <= n THEN s ELSE SubSeq(s, Len(s) - n + 1, Len(s))

\* ---------------------------------------------------------------- is_night_time

NightStartHour == 22
NightEndHour == 7

is_night_time_after_start(hour) == hour > NightStartHour \/ hour < NightEndHour

is_night_time(hour) == hour >= NightStartHour \/ hour < NightEndHour

\* ------------------------------------------------------------ int() and str()

Digits == <<"0", "1", "2", "3", "4", "5", "6", "7", "8", "9">>

IsDigit(c) == \E d \in 1..Len(Digits) : Digits[d] = c

DigitVal(c) == (CHOOSE d \in 1..Len(Digits) : Digits[d] = c) - 1

RECURSIVE DigitsVal(_)
DigitsVal(s) ==
    IF s = <<>> THEN 0
    ELSE DigitsVal(SubSeq(s, 1, Len(s) - 1)) * Len(Digits) + DigitVal(s[Len(s)])

\* int(s) raises ValueError unless s is an optional sign followed by digits
IntBody(s) == IF s # <<>> /\ Head(s) = "-" THEN Tail(s) ELSE s

IntParses(s) ==
    /\ s # None
    /\ IntBody(s) # <<>>
    /\ \A i \in 1..Len(IntBody(s)) : IsDigit(IntBody(s)[i])

IntOf(s) == IF Head(s) = "-" THEN 0 - DigitsVal(Tail(s)) ELSE DigitsVal(s)

\* str(n)
RECURSIVE NatStr(_)
NatStr(n) ==
    IF n < Len(Digits) THEN <<Digits[n + 1]>>
    ELSE NatStr(n \div Len(Digits)) \o <<Digits[(n % Len(Digits)) + 1]>>

IntStr(n) == IF n < 0 THEN <<"-">> \o NatStr(0 - n) ELSE NatStr(n)

\* a truthy str: neither None nor ""
Truthy(s) == s # None /\ s # <<>>

\* `s or ""`
OrEmpty(s) == IF Truthy(s) THEN s ELSE <<>>

\* sep.join(parts)
RECURSIVE Join(_, _)
Join(sep, parts) ==
    IF parts = <<>> THEN <<>>
    ELSE IF Len(parts) = 1 THEN parts[1]
    ELSE parts[1] \o sep \o Join(sep, Tail(parts))

\* ------------------------------------------------------------------ the world

\* context.bot.id, the agent's own user id
BotId == 9

\* the people who write: Maxim has a username, the other one only a name
UserM == [id |-> 1, username |-> <<"maks">>, full_name |-> <<"Maksim">>]
UserO == [id |-> 2, username |-> None, full_name |-> <<"Olya">>]
Users == {UserM, UserO}

\* the chats: two groups and the private chat of UserO with the bot
ChatG == [id |-> 0 - 10, type |-> "supergroup"]
ChatH == [id |-> 0 - 20, type |-> "group"]
ChatP == [id |-> 2, type |-> "private"]
GroupChats == {ChatG, ChatH}

\* message.reply_to_message: absent, or a message of the bot, of a user, or one
\* with no from_user (a channel post)
NoReply == [present |-> FALSE, has_user |-> FALSE, from_id |-> 0]
ReplyToBot == [present |-> TRUE, has_user |-> TRUE, from_id |-> BotId]
ReplyToUser == [present |-> TRUE, has_user |-> TRUE, from_id |-> UserO.id]
ReplyToChannel == [present |-> TRUE, has_user |-> FALSE, from_id |-> 0]
Replies == {NoReply, ReplyToBot, ReplyToUser, ReplyToChannel}

\* the texts people send (filters.TEXT: never empty)
TextPrivet == <<"p", "r", "i", "v", "e", "t">>
TextSamuilQ == <<"S", "a", "m", "u", "i", "l", "?">>
TextPogoda ==
    <<"s", "a", "m", "u", "i", "l", " ", "p", "o", "g", "o", "d", "a", " ",
      "v", " ", "K", "a", "l", "u", "g", "e">>
TextMaksim == <<"M", "a", "k", "s", "i", "m", " ", "u", "s", "t", "a", "l">>
PrivateTexts == {TextPrivet, TextSamuilQ}

\* update.message is None for an update that carries no new message (an edit)
NoMessage ==
    [has_message |-> FALSE, chat |-> ChatG, user |-> UserO, text |-> <<>>,
     reply |-> NoReply]

Update(chat, user, text, reply) ==
    [has_message |-> TRUE, chat |-> chat, user |-> user, text |-> text,
     reply |-> reply]

\* what reaches handle_group_message through main()'s filters: in both groups and
\* from both users a plain text with every kind of reply target and a text that
\* names Samuil, a question about the weather, and an update with no message
GroupUpdates ==
    {Update(c, u, TextPrivet, r) : c \in GroupChats, u \in Users, r \in Replies}
    \cup {Update(c, u, TextSamuilQ, NoReply) : c \in GroupChats, u \in Users}
    \cup {Update(ChatG, UserO, TextPogoda, NoReply), NoMessage}

\* what echo_private is called with: the private chat's messages through main(),
\* and a group message and a message-less update for its own guards
PrivateUpdates ==
    {Update(ChatP, UserO, t, NoReply) : t \in PrivateTexts}
    \cup {Update(ChatG, UserM, TextPrivet, NoReply),
          [NoMessage EXCEPT !.chat = ChatP]}

\* the few updates that arrive while the clock runs and the jobs are called: a
\* message of Maxim that does not name Samuil, one that asks him for the weather,
\* one of another group, and an update with no message
FewGroupUpdates ==
    {Update(ChatG, UserM, TextPrivet, NoReply),
     Update(ChatG, UserO, TextPogoda, NoReply),
     Update(ChatH, UserO, TextPrivet, NoReply),
     NoMessage}

FewPrivateUpdates == {Update(ChatP, UserO, TextPrivet, NoReply)}

\* the values of the environment variable GROUP_CHAT_ID: unset, the id of ChatG,
\* and a value that is no number
GroupChatIdValues == {None, IntStr(ChatG.id), <<"g", "r", "p">>}

\* the values of TARGET_USER_ID: the default 0, and Maxim's id
TargetUserIdValues == {0, UserM.id}

\* ------------------------------------------------------------ weather helpers

\* an Optional number
NoNumber == [some |-> FALSE, val |-> 0]
Number(n) == [some |-> TRUE, val |-> n]

\* round() of a temperature given in tenths of a degree: to the nearest integer,
\* a half to the even one
Round(tenths) ==
    LET q == tenths \div 10
        r == tenths % 10
    IN  IF r < 5 THEN q
        ELSE IF r > 5 THEN q + 1
        ELSE IF q % 2 = 0 THEN q ELSE q + 1

\* the dictionaries fetch_weather_for_city builds from an answer of OpenWeather:
\* a complete one, and one with the optional parts missing
WeatherResults(city_query) ==
    {[city |-> <<"Kaluga">>, country |-> <<"RU">>, temp |-> Number(0 - 25),
      feels_like |-> Number(0 - 71), humidity |-> Number(80),
      description |-> <<"sneg">>],
     [city |-> city_query, country |-> <<>>, temp |-> NoNumber,
      feels_like |-> NoNumber, humidity |-> NoNumber,
      description |-> <<"bez opisaniya">>]}

\* no weather: fetch_weather_for_city returned None, or was not called
NoWeather ==
    [city |-> None, country |-> None, temp |-> NoNumber, feels_like |-> NoNumber,
     humidity |-> NoNumber, description |-> None]

IsWordChar(c) == ~IsSpace(c) /\ c \notin {"?", ",", ".", "-", "!", ":"}

\* [A-Za-zА-Яа-я\-]
IsCityChar(c) == (IsWordChar(c) /\ ~IsDigit(c) /\ c # "_") \/ c = "-"

RECURSIVE SkipSpaces(_, _)
SkipSpaces(t, j) ==
    IF j <= Len(t) /\ IsSpace(t[j]) THEN SkipSpaces(t, j + 1) ELSE j

RECURSIVE CityEnd(_, _)
CityEnd(t, j) ==
    IF j + 1 <= Len(t) /\ IsCityChar(t[j + 1]) THEN CityEnd(t, j + 1) ELSE j

\* re.search(r"\bв\s+([A-Za-zА-Яа-я\-]+)", t) matches at position i
CityMatchAt(t, i) ==
    /\ t[i] = "v"
    /\ i = 1 \/ ~IsWordChar(t[i - 1])
    /\ i + 1 <= Len(t) /\ IsSpace(t[i + 1])
    /\ SkipSpaces(t, i + 1) <= Len(t)
    /\ IsCityChar(t[SkipSpaces(t, i + 1)])

detect_weather_city_from_text(text) ==
    LET t == Lower(text)
        hits == {i \in 1..Len(t) : CityMatchAt(t, i)}
        first == CHOOSE i \in hits : \A k \in hits : i <= k
        from == SkipSpaces(t, first + 1)
    IN  IF \/ Contains(t, <<"k", "a", "l", "u", "g", "e">>)
           \/ Contains(t, <<"k", "a", "l", "u", "g", "a">>)
           \/ Contains(t, <<"lat_k", "lat_a", "lat_l", "lat_u", "lat_g", "lat_a">>)
        THEN <<"Kaluga,ru">>
        ELSE IF \/ Contains(t, <<"b", "r", "i", "s", "b", "e", "n", "e">>)
                \/ Contains(t, <<"b", "r", "i", "s", "b", "e", "n">>)
                \/ Contains(t, <<"lat_b", "lat_r", "lat_i", "lat_s", "lat_b", "lat_a",
                                 "lat_n", "lat_e">>)
        THEN <<"Brisbane,au">>
        ELSE IF hits # {} THEN SubSeq(t, from, CityEnd(t, from))
        ELSE None

format_weather_for_prompt(info) ==
    LET p1 == IF Truthy(info.city)
              THEN IF Truthy(info.country)
                   THEN <<info.city \o <<", ">> \o info.country>>
                   ELSE <<info.city>>
              ELSE <<>>
        p2 == IF Truthy(info.description)
              THEN <<<<"seychas ">> \o info.description>>
              ELSE <<>>
        p3 == IF info.temp.some
              THEN <<<<"temperatura okolo ">> \o IntStr(Round(info.temp.val))
                     \o <<" C">>>>
              ELSE <<>>
        p4 == IF info.feels_like.some
              THEN <<<<"oshchushchaetsya kak ">>
                     \o IntStr(Round(info.feels_like.val)) \o <<" C">>>>
              ELSE <<>>
        p5 == IF info.humidity.some
              THEN <<<<"vlazhnost primerno ">> \o IntStr(info.humidity.val)
                     \o <<"%">>>>
              ELSE <<>>
    IN  Join(<<", ">>, p1 \o p2 \o p3 \o p4 \o p5)

\* ------------------------------------------------------ AI message generators

MAX_QA_TOKENS == 300

get_time_context(hour) ==
    IF hour < 6 THEN <<"Noch, pora by spat">>
    ELSE IF hour < 12 THEN <<"Utro">>
    ELSE IF hour < 17 THEN <<"Den v razgare">>
    ELSE IF hour < 22 THEN <<"Vecher">>
    ELSE <<"Pozdniy vecher">>

weekday_names ==
    <<"ponedelnik", "vtornik", "sreda", "chetverg", "pyatnitsa", "subbota",
      "voskresenye">>

\* the two blocks of the role description: the persona, and the biography of Maxim
PromptBase == <<"BASE: Ty - Samuil">>
PromptMaximCtx == <<"KONTEKST PRO MAKSIMA">>

build_samuil_system_prompt(include_maxim_context) ==
    IF ~include_maxim_context THEN PromptBase ELSE PromptBase \o PromptMaximCtx

Turn(role, content) == [role |-> role, content |-> content]

\* ---------------------------------------------------------------------- state

VARIABLES
    GROUP_CHAT_ID,       \* the environment variable, a str or None
    TARGET_USER_ID,      \* Maxim's user id, 0 when not configured
    client,              \* the OpenAI client, None without OPENAI_API_KEY
    dialog_history,      \* (chat_id, user_id) -> list of turns
    daily_summary_log,   \* date -> list of "author: text"
    _jobs_scheduled,     \* the flag of setup_scheduled_jobs
    job_queue,           \* application.job_queue: the jobs registered in it
    started,             \* post_init has run and updates are being polled
    clock,               \* the local date and time
    h,                   \* the update handler in flight, or the last one
    job,                 \* the run of each job callback in flight, or its last
    n_updates,           \* updates dispatched so far
    turns_appended,      \* (chat_id, user_id) -> every turn ever appended
    setup_log,           \* has_job_queue of every call of setup_scheduled_jobs
    ret,                 \* the last call of is_night_time and what it returned
    update_queue,        \* application.update_queue: updates not yet dispatched
    h2                   \* a second handler in flight, if updates are concurrent

vars ==
    <<GROUP_CHAT_ID, TARGET_USER_ID, client, dialog_history, daily_summary_log,
      _jobs_scheduled, job_queue, started, clock, h, job, n_updates,
      turns_appended, setup_log, ret, update_queue, h2>>

config == <<GROUP_CHAT_ID, TARGET_USER_ID, client>>

\* what the handlers and the jobs of one run of the bot never touch
apart == <<setup_log, ret, h2>>

\* the conversation keys (chat_id, user_id)
Keys == {<<c.id, u.id>> : c \in GroupChats \cup {ChatP}, u \in Users}

Days == 0..MaxDay

\* the moments of a day the clock stops at, as (hour, minute): midnight, the two
\* times the jobs are registered for, and the first minute of the night
TimePoints == <<<<0, 0>>, <<7, 30>>, <<21, 0>>, <<22, 0>>>>

Clock(day, p) == [day |-> day, point |-> p]
Hour(c) == TimePoints[c.point][1]
Minute(c) == TimePoints[c.point][2]
\* strftime("%H:%M"): two digits each
Pad2(n) == IF n < 10 THEN <<"0">> \o NatStr(n) ELSE NatStr(n)
TimeStr(c) == Pad2(Hour(c)) \o <<":">> \o Pad2(Minute(c))
\* datetime.weekday(): day 0 is a Monday
Weekday(c) == c.day % Len(weekday_names)
\* date.today().isoformat(): the date is its day number
TodayStr(c) == c.day

\* ------------------------------------------------------------ call_openai_chat

\* what client.chat.completions.create does: it raises, or it returns a response
\* with no choices, with a choice whose content is None, or with a content
ApiRaises == [raises |-> TRUE, choices |-> <<>>]
ApiNoChoices == [raises |-> FALSE, choices |-> <<>>]
ApiNoContent == [raises |-> FALSE, choices |-> <<None>>]
ApiContent(c) == [raises |-> FALSE, choices |-> <<c>>]

ApiResponses ==
    {ApiRaises, ApiNoChoices, ApiNoContent,
     ApiContent(<<" ", "Nu privet", "\n">>), ApiContent(<<" ">>)}

ErrNotConfigured == <<"OpenAI client is not configured (no API key).">>

\* the backend is configured and the response carries a content
BackendSucceeds(resp) ==
    /\ client # None
    /\ ~resp.raises
    /\ resp.choices # <<>>
    /\ resp.choices[1] # None

call_openai_chat_error_as_text(resp) ==
    IF client = None
    THEN [text |-> ErrNotConfigured, err |-> ErrNotConfigured]
    ELSE IF resp.raises \/ resp.choices = <<>> \/ resp.choices[1] = None
    THEN [text |-> <<"Error calling OpenAI: ", "APIError">>,
          err |-> <<"Error calling OpenAI: ", "APIError">>]
    ELSE [text |-> Strip(resp.choices[1]), err |-> None]

\* (text, error_message) of call_openai_chat when the API answers resp
call_openai_chat(resp) ==
    IF client = None THEN [text |-> None, err |-> ErrNotConfigured]
    ELSE IF resp.raises
    THEN [text |-> None, err |-> <<"Error calling OpenAI: ", "APIError">>]
    ELSE IF resp.choices = <<>>
    THEN [text |-> None, err |-> <<"Error calling OpenAI: ", "IndexError">>]
    ELSE IF resp.choices[1] = None
    THEN [text |-> None, err |-> <<"Error calling OpenAI: ", "AttributeError">>]
    ELSE [text |-> Strip(resp.choices[1]), err |-> None]

\* send_message: Telegram refuses an empty text, and any send may fail
SendOutcomes(text) == IF text = <<>> THEN {FALSE} ELSE {TRUE, FALSE}

\* ------------------------------------------------------------------- main

concurrent_updates_on == TRUE

\* Application.builder().token(TOKEN).build(): concurrent_updates is not set,
\* and the handlers are added as blocking ones
concurrent_updates == FALSE

\* ------------------------------------------------------ generate_samuil_answer

\* history[-8:], the turns of the stored history given to the backend
HistoryWindow == 8
\* the stored history of a key is cut to its last 30 turns
HistoryCap == 30

MentionName == <<"s", "a", "m", "u", "i", "l">>
MaximName == <<"m", "a", "k", "s", "i", "m">>

QuestionHint == <<"Polzovatel zadal vopros. Otvechay informativno.">>

HistoryKeyOfChat(chat_id, user_id) == <<chat_id, UserM.id>>

\* key = (chat_id, user_id), the key of a conversation in dialog_history
HistoryKey(chat_id, user_id) == <<chat_id, user_id>>

include_maxim_context_always(user_id, user_text) == TRUE

TrimmedWhole(history) == history

\* history[-8:] of a history that is not empty
Trimmed(history) ==
    IF history # <<>> THEN LastN(history, HistoryWindow) ELSE <<>>

\* whether the role description carries the block about Maxim
include_maxim_context(user_id, user_text) ==
    user_id = TARGET_USER_ID \/ Contains(Lower(user_text), MaximName)

\* the list `messages` generate_samuil_answer gives to call_openai_chat
SamuilMessages(now, user_id, user_text, weather_info, history) ==
    LET system_prompt ==
            build_samuil_system_prompt(include_maxim_context(user_id, user_text))
        extra_context_parts ==
            <<<<"Segodnya ", weekday_names[Weekday(now) + 1], ", ">>
                \o get_time_context(Hour(now)),
              <<"Ty v gruppovom chate, otvechaesh na pryamoe obrashchenie.">>>>
            \o (IF weather_info # NoWeather
                THEN <<<<"Tochnye dannye o pogode (ispolzuy ih kak fakt): ">>
                       \o format_weather_for_prompt(weather_info)>>
                ELSE <<>>)
        extra_context == Join(<<" ">>, extra_context_parts)
    IN  <<Turn("system", system_prompt), Turn("user", extra_context)>>
        \o Trimmed(history)
        \o <<Turn("user", user_text)>>
        \o (IF Contains(user_text, <<"?">>)
            THEN <<Turn("system", QuestionHint)>>
            ELSE <<>>)

UpdatedHistoryKeepsOldest(history, user_text, text) ==
    LET appended ==
            history \o <<Turn("user", user_text), Turn("assistant", text)>>
    IN  IF Len(appended) > HistoryCap THEN SubSeq(appended, 1, HistoryCap)
        ELSE appended

UpdatedHistoryAnswerFirst(history, user_text, text) ==
    LET appended ==
            history \o <<Turn("assistant", text), Turn("user", user_text)>>
    IN  IF Len(appended) > HistoryCap THEN LastN(appended, HistoryCap)
        ELSE appended

UpdatedHistoryCutOdd(history, user_text, text) ==
    LET appended ==
            history \o <<Turn("user", user_text), Turn("assistant", text)>>
    IN  IF Len(appended) > HistoryCap THEN LastN(appended, HistoryCap - 1)
        ELSE appended

\* the history of the key after a successful exchange
UpdatedHistory(history, user_text, text) ==
    LET appended ==
            history \o <<Turn("user", user_text), Turn("assistant", text)>>
    IN  IF Len(appended) > HistoryCap THEN LastN(appended, HistoryCap)
        ELSE appended

HistoryAfterAnswerAlways(history, user_text, text) ==
    UpdatedHistory(history, user_text,
                   IF text # None THEN text ELSE <<"Moy sarkasticheskiy modul">>)

\* the history of the key when call_openai_chat has returned text, or None
HistoryAfterAnswer(history, user_text, text) ==
    IF text # None THEN UpdatedHistory(history, user_text, text) ELSE history

\* ------------------------------------------ generate_sarcastic_reply_for_maxim

SarcasticMessages(now, user_text) ==
    LET system_prompt == build_samuil_system_prompt(TRUE)
        user_prompt ==
            <<"Kontekst situatsii. Den: ", weekday_names[Weekday(now) + 1],
              ", Vremya: ">>
            \o TimeStr(now) \o <<"\n">>
            \o get_time_context(Hour(now))
            \o <<"Soobshchenie Maksima: ">> \o user_text
            \o <<"Zadanie: pridumay korotkiy sarkastichnyy otvet">>
    IN  <<Turn("system", system_prompt), Turn("user", user_prompt)>>

\* ------------------------------------------------------------------- handlers

\* the fallbacks of the two branches of handle_group_message
QaFallbacks ==
    {<<"Segodnya neyroseti chto-to priunyli. Poprobuy pozzhe.">>,
     <<"Moy sarkasticheskiy modul na perezagruzke.">>,
     <<"Inogda dazhe mne nechego skazat. Vot tak.">>,
     <<"Poprobuy pereformulirovat, a to ya segodnya v zadumchivom nastroenii.">>}

MaximFallbacks ==
    {<<"Maksim, ya dazhe ne znayu, chto skazat... Tolko ty mog takoe napisat.">>,
     <<"Vot eto povorot. Dazhe moy sarkazm ne spravlyaetsya.">>,
     <<"Interesno. No ne nastolko, chtoby ya nashel, chto otvetit.">>,
     <<"Prodolzhay v tom zhe duhe, a ya poka podumayu nad otvetom.">>}

\* a handler called with update u: nothing done yet
Called(fn, u) ==
    [pc |-> "idle", fn |-> fn, update |-> u, now |-> clock, branch |-> "none",
     weather_info |-> NoWeather, messages |-> <<>>, calls |-> 0,
     backend_ok |-> FALSE, ai_text |-> None, out_text |-> None, sends |-> 0,
     delivered |-> FALSE, raised |-> FALSE, history0 |-> dialog_history]

\* the handler returns
Returned(rec, branch) == [rec EXCEPT !.pc = "idle", !.branch = branch]

\* the handler calls send_message(text) and awaits it
Sending(rec, text) ==
    [rec EXCEPT !.pc = "send", !.out_text = text, !.sends = rec.sends + 1]

IsPrivateNotGroup(chat) == chat.type # "group"

IsPrivate(chat) == chat.type = "private"

EchoReply(text) == <<"Ty napisal: ">> \o text

\* echo_private, up to its await
echo_private(u) ==
    /\ started
    /\ h.pc = "idle"
    /\ n_updates' = n_updates + 1
    /\ h' = IF ~IsPrivate(u.chat)
            THEN Returned(Called("echo_private", u), "not_private")
            ELSE IF ~u.has_message
            \* update.message.text on None: AttributeError
            THEN [Returned(Called("echo_private", u), "private")
                    EXCEPT !.raised = TRUE]
            ELSE Sending([Called("echo_private", u) EXCEPT !.branch = "private"],
                         EchoReply(OrEmpty(u.text)))
    /\ UNCHANGED <<config, dialog_history, daily_summary_log, _jobs_scheduled,
                   job_queue, started, clock, job, turns_appended, apart>>

NotTargetChatInverted(chat_id) ==
    /\ Truthy(GROUP_CHAT_ID)
    /\ IntParses(GROUP_CHAT_ID)
    /\ chat_id = IntOf(GROUP_CHAT_ID)

\* the filter by GROUP_CHAT_ID: the update is of another chat than the target
\* (a GROUP_CHAT_ID that is no number filters nothing)
NotTargetChat(chat_id) ==
    /\ Truthy(GROUP_CHAT_ID)
    /\ IntParses(GROUP_CHAT_ID)
    /\ chat_id # IntOf(GROUP_CHAT_ID)

\* user.username or user.full_name or str(user_id)
AuthorName(user) ==
    IF Truthy(user.username) THEN user.username
    ELSE IF Truthy(user.full_name) THEN user.full_name
    ELSE IntStr(user.id)

LogEntry(user, text) == AuthorName(user) \o <<": ">> \o text

is_reply_to_anyone(u) == u.reply.present /\ u.reply.has_user

is_reply_to_bot(u) ==
    u.reply.present /\ u.reply.has_user /\ u.reply.from_id = BotId

FromMaximInverted(u) == TARGET_USER_ID # 0 /\ u.user.id # TARGET_USER_ID

\* branch 2 of handle_group_message: a message of Maxim
FromMaxim(u) == TARGET_USER_ID # 0 /\ u.user.id = TARGET_USER_ID

AddressedCaseSensitive(u) ==
    is_reply_to_bot(u) \/ Contains(OrEmpty(u.text), MentionName)

\* branch 1, tried first: the message is addressed to Samuil
Addressed(u) ==
    is_reply_to_bot(u) \/ Contains(Lower(OrEmpty(u.text)), MentionName)

AsksWeather(text) ==
    \/ Contains(Lower(text), <<"p", "o", "g", "o", "d">>)
    \/ Contains(Lower(text), <<"t", "e", "m", "p", "e", "r", "a", "t", "u", "r">>)

\* generate_samuil_answer up to its await of call_openai_chat
AwaitSamuilAnswer(rec, weather_info) ==
    [rec EXCEPT
        !.pc = "samuil",
        !.weather_info = weather_info,
        !.calls = rec.calls + 1,
        !.messages =
            SamuilMessages(rec.now, rec.update.user.id, OrEmpty(rec.update.text),
                           weather_info,
                           dialog_history[HistoryKey(rec.update.chat.id,
                                                     rec.update.user.id)])]

\* generate_sarcastic_reply_for_maxim up to its await of call_openai_chat
AwaitSarcasticReply(rec) ==
    [rec EXCEPT
        !.pc = "sarcastic",
        !.calls = rec.calls + 1,
        !.messages = SarcasticMessages(rec.now, OrEmpty(rec.update.text))]

LogUntouched(today_str, entry) == daily_summary_log

\* daily_summary_log after daily_summary_log[today_str].append(entry)
LogAppended(today_str, entry) ==
    [daily_summary_log EXCEPT ![today_str] = Append(@, entry)]

\* handle_group_message from its call to its first await, or to its return,
\* as the handler `me` of those in flight
handle_group_message_as(u, me, me_next) ==
    LET rec == Called("handle_group_message", u)
        text == OrEmpty(u.text)
        logged == LogAppended(TodayStr(clock), LogEntry(u.user, text))
    IN  /\ started
        /\ me.pc = "idle"
        /\ n_updates' = n_updates + 1
        /\ \/ /\ ~u.has_message
              /\ me_next = Returned(rec, "no_message")
              /\ UNCHANGED daily_summary_log
           \/ /\ u.has_message
              /\ NotTargetChat(u.chat.id)
              /\ me_next = Returned(rec, "filtered")
              /\ UNCHANGED daily_summary_log
           \/ /\ u.has_message
              /\ ~NotTargetChat(u.chat.id)
              /\ daily_summary_log' = logged
              /\ IF Addressed(u)
                 THEN IF AsksWeather(text)
                         /\ Truthy(detect_weather_city_from_text(text))
                      THEN me_next = [rec EXCEPT !.pc = "weather",
                                            !.branch = "addressed"]
                      ELSE me_next = AwaitSamuilAnswer(
                                    [rec EXCEPT !.branch = "addressed"], NoWeather)
                 ELSE IF FromMaxim(u)
                 THEN \* random.random() < 0.2
                      \E skip \in BOOLEAN :
                          me_next = IF skip THEN Returned(rec, "skipped")
                               ELSE AwaitSarcasticReply(
                                        [rec EXCEPT !.branch = "primary"])
                 ELSE me_next = Returned(rec, "silent")
        /\ UNCHANGED <<config, dialog_history, _jobs_scheduled, job_queue,
                       started, clock, job, turns_appended, setup_log, ret>>

\* handle_group_message as the one handler of an application that processes
\* its updates one after the other
handle_group_message(u) ==
    /\ handle_group_message_as(u, h, h')
    /\ UNCHANGED h2

\* fetch_weather_for_city returns, and generate_samuil_answer is called
WeatherFetched ==
    /\ h.pc = "weather"
    /\ \E info \in
            WeatherResults(detect_weather_city_from_text(OrEmpty(h.update.text)))
            \cup {NoWeather} :
          h' = AwaitSamuilAnswer(h, info)
    /\ UNCHANGED <<config, dialog_history, daily_summary_log, _jobs_scheduled,
                   job_queue, started, clock, job, n_updates, turns_appended,
                   update_queue, apart>>

\* call_openai_chat returns to generate_samuil_answer, which returns to
\* handle_group_message, which sends the answer or a fallback
SamuilAnswerReturns(resp) ==
    LET r == call_openai_chat(resp)
        key == HistoryKey(h.update.chat.id, h.update.user.id)
        user_text == OrEmpty(h.update.text)
        answered == [h EXCEPT !.ai_text = r.text,
                             !.backend_ok = BackendSucceeds(resp)]
    IN  /\ h.pc = "samuil"
        /\ dialog_history' =
              [dialog_history EXCEPT
                  ![key] = HistoryAfterAnswer(@, user_text, r.text)]
        /\ turns_appended' =
              IF r.text = None THEN turns_appended
              ELSE [turns_appended EXCEPT
                       ![key] = @ \o <<Turn("user", user_text),
                                       Turn("assistant", r.text)>>]
        /\ IF r.text # None
           THEN h' = Sending(answered, r.text)
           ELSE \E fallback \in QaFallbacks : h' = Sending(answered, fallback)
        /\ UNCHANGED <<config, daily_summary_log, _jobs_scheduled, job_queue,
                       started, clock, job, n_updates, update_queue, apart>>

\* call_openai_chat returns to generate_sarcastic_reply_for_maxim
SarcasticReplyReturns(resp) ==
    /\ h.pc = "sarcastic"
    /\ LET r == call_openai_chat(resp)
           answered == [h EXCEPT !.ai_text = r.text,
                                !.backend_ok = BackendSucceeds(resp)]
       IN  IF r.text # None
           THEN h' = Sending(answered, r.text)
           ELSE \E fallback \in MaximFallbacks : h' = Sending(answered, fallback)
    /\ UNCHANGED <<config, dialog_history, daily_summary_log, _jobs_scheduled,
                   job_queue, started, clock, job, n_updates, turns_appended,
                   update_queue, apart>>

SendReturnsOrRetries ==
    /\ h.pc = "send"
    /\ \E ok \in SendOutcomes(h.out_text) :
          h' = IF ok THEN [h EXCEPT !.pc = "idle", !.delivered = TRUE]
               ELSE Sending(h, h.out_text)
    /\ UNCHANGED <<config, dialog_history, daily_summary_log, _jobs_scheduled,
                   job_queue, started, clock, job, n_updates, turns_appended,
                   update_queue, apart>>

\* the send_message or reply_text a handler awaits ends: the message went out,
\* or the call raised and the exception leaves the handler
SendReturns ==
    /\ h.pc = "send"
    /\ \E ok \in SendOutcomes(h.out_text) :
          h' = [h EXCEPT !.pc = "idle", !.delivered = ok, !.raised = ~ok]
    /\ UNCHANGED <<config, dialog_history, daily_summary_log, _jobs_scheduled,
                   job_queue, started, clock, job, n_updates, turns_appended,
                   update_queue, apart>>

\* ------------------------------------------------------------- scheduled jobs

JobNames == {"good_morning_job", "evening_summary_job"}

\* a job callback that is not running and has not run.  retriggers and
\* sent_before tell of the earlier calls of the callback at this time of the
\* day: how many there were, and how many of them got their message out
JobIdle ==
    [pc |-> "idle", ran |-> FALSE, now |-> Clock(0, 1), today_str |-> 0,
     messages_today |-> <<>>, sample_messages |-> <<>>, messages |-> <<>>,
     calls |-> 0, backend_ok |-> FALSE,
     text |-> None,
     sends |-> 0, sent_at |-> Clock(0, 1), delivered |-> FALSE,
     retriggers |-> 0, sent_before |-> 0]

\* the numbers of a set, smallest first
RECURSIVE Ascending(_)
Ascending(S) ==
    IF S = {} THEN <<>>
    ELSE LET m == CHOOSE x \in S : \A y \in S : x <= y
         IN  <<m>> \o Ascending(S \ {m})

\* the orders random.sample may give the positions it has picked: of all of
\* them, the order of the list, its reverse, and the order of the list begun at
\* its second position
SampleOrders(S) ==
    LET up == Ascending(S)
        k == Len(up)
    IN  {up, [i \in 1..k |-> up[k + 1 - i]], [i \in 1..k |-> up[(i % k) + 1]]}

\* random.sample(population, k): k elements of the list at different positions,
\* whichever positions, in one of the orders above
Samples(population, k) ==
    {[i \in 1..k |-> population[pick[i]]] :
        pick \in UNION {SampleOrders(S) :
                           S \in {T \in SUBSET (1..Len(population)) :
                                     Cardinality(T) = k}}}

Min(a, b) == IF a < b THEN a ELSE b

SampleMessagesWhole(messages_today) == {messages_today}

\* the messages of the day evening_summary_job may put in its prompt
SampleMessages(messages_today) ==
    IF Len(messages_today) > 10
    THEN Samples(LastN(messages_today, 20), Min(8, Len(messages_today)))
    ELSE {LastN(messages_today, 10)}

GoodMorningMessages(now) ==
    <<Turn("system", build_samuil_system_prompt(TRUE)),
      Turn("user", <<"Zadanie: Utrennee pozhelanie Maksimu. Segodnya ",
                     weekday_names[Weekday(now) + 1], ", utro 7:30.">>)>>

EveningMessages(now, sample_messages) ==
    LET context_msg ==
            IF sample_messages # <<>>
            THEN <<"Vot neskolko soobshcheniy iz chata za segodnya:\n\n">>
                 \o Join(<<"\n">>, sample_messages) \o <<"\n">>
            ELSE <<"Za segodnya soobshcheniy bylo malo ili ih ne bylo vovse.">>
    IN  <<Turn("system", build_samuil_system_prompt(TRUE)),
          Turn("user", <<"Zadanie: Vecherniy obzor dnya. Segodnya ",
                         weekday_names[Weekday(now) + 1], ", vecher 21:00.">>
                       \o context_msg)>>

JobUnchanged ==
    UNCHANGED <<config, dialog_history, _jobs_scheduled, job_queue, started,
                clock, h, n_updates, turns_appended, update_queue, apart>>

\* good_morning_job from its call by the job queue to its await, or its return
good_morning_job ==
    LET me == job["good_morning_job"]
        run == [me EXCEPT !.pc = "idle", !.ran = TRUE, !.now = clock]
    IN  /\ me.pc = "due"
        /\ job' = [job EXCEPT !["good_morning_job"] =
                      IF ~Truthy(GROUP_CHAT_ID) THEN run
                      ELSE [run EXCEPT !.pc = "call", !.calls = 1,
                                       !.messages = GoodMorningMessages(clock)]]
        /\ UNCHANGED daily_summary_log
        /\ JobUnchanged

\* evening_summary_job from its call by the job queue to its await, or its return
evening_summary_job ==
    LET me == job["evening_summary_job"]
        messages_today == daily_summary_log[TodayStr(clock)]
        run == [me EXCEPT !.pc = "idle", !.ran = TRUE, !.now = clock,
                          !.today_str = TodayStr(clock)]
    IN  /\ me.pc = "due"
        /\ IF ~Truthy(GROUP_CHAT_ID)
           THEN job' = [job EXCEPT !["evening_summary_job"] = run]
           ELSE \E sample_messages \in SampleMessages(messages_today) :
                   job' = [job EXCEPT !["evening_summary_job"] =
                              [run EXCEPT
                                  !.pc = "call", !.calls = 1,
                                  !.messages_today = messages_today,
                                  !.sample_messages = sample_messages,
                                  !.messages =
                                      EveningMessages(clock, sample_messages)]]
        /\ UNCHANGED daily_summary_log
        /\ JobUnchanged

\* call_openai_chat returns to the job: without a text the job returns, with one
\* it calls send_message, which int(GROUP_CHAT_ID) keeps from if it raises
JobCallReturns(name, resp) ==
    /\ job[name].pc = "call"
    /\ LET r == call_openai_chat(resp)
           answered == [job[name] EXCEPT !.text = r.text,
                                             !.backend_ok = BackendSucceeds(resp)]
       IN  job' = [job EXCEPT ![name] =
                      IF r.text = None \/ ~IntParses(GROUP_CHAT_ID)
                      THEN [answered EXCEPT !.pc = "idle"]
                      ELSE [answered EXCEPT !.pc = "send", !.sends = 1,
                                            !.sent_at = clock]]
    /\ UNCHANGED daily_summary_log
    /\ JobUnchanged

\* the send_message of a job ends; an exception is caught and printed.  After
\* its message went out evening_summary_job deletes the log of its day
JobSendReturns(name) ==
    /\ job[name].pc = "send"
    /\ \E ok \in SendOutcomes(job[name].text) :
          /\ job' = [job EXCEPT ![name].pc = "idle", ![name].delivered = ok]
          /\ daily_summary_log' =
                IF ok /\ name = "evening_summary_job"
                THEN [daily_summary_log EXCEPT ![job[name].today_str] = <<>>]
                ELSE daily_summary_log
    /\ JobUnchanged

\* the job queue calls a callback once more at the same time of the day: a job
\* run by hand, or a trigger that comes twice
Retrigger(name) ==
    LET me == job[name]
    IN  /\ me.ran /\ me.pc = "idle"
        /\ me.retriggers < MaxRetriggers
        /\ job' = [job EXCEPT ![name] =
                      [JobIdle EXCEPT
                          !.pc = "due",
                          !.retriggers = me.retriggers + 1,
                          !.sent_before =
                              me.sent_before + IF me.delivered THEN 1 ELSE 0]]
        /\ UNCHANGED daily_summary_log
        /\ JobUnchanged

\* ------------------------------------------------------ setup_scheduled_jobs

RegisteredJobsAtNight ==
    <<[name |-> "good_morning_job", callback |-> "good_morning_job",
       time |-> <<7, 30>>],
      [name |-> "evening_summary_job", callback |-> "evening_summary_job",
       time |-> <<22, 0>>]>>

\* the jobs setup_scheduled_jobs registers with run_daily
RegisteredJobs ==
    <<[name |-> "good_morning_job", callback |-> "good_morning_job",
       time |-> <<7, 30>>],
      [name |-> "evening_summary_job", callback |-> "evening_summary_job",
       time |-> <<21, 0>>]>>

\* setup_scheduled_jobs(application); has_job_queue: application.job_queue is
\* not None
setup_scheduled_jobs_again(has_job_queue) ==
    IF ~has_job_queue
    THEN UNCHANGED <<_jobs_scheduled, job_queue>>
    ELSE /\ job_queue' = job_queue \o RegisteredJobs
         /\ _jobs_scheduled' = TRUE

setup_scheduled_jobs(has_job_queue) ==
    IF _jobs_scheduled \/ ~has_job_queue
    THEN UNCHANGED <<_jobs_scheduled, job_queue>>
    ELSE /\ job_queue' = RegisteredJobs
         /\ _jobs_scheduled' = TRUE

\* run_polling: post_init is called once, then updates are polled
post_init ==
    /\ ~started
    /\ started' = TRUE
    /\ \E has_job_queue \in BOOLEAN :
          /\ setup_scheduled_jobs(has_job_queue)
          /\ setup_log' = Append(setup_log, has_job_queue)
    /\ UNCHANGED <<config, dialog_history, daily_summary_log, clock, h, job,
                   n_updates, turns_appended, ret, update_queue, h2>>

\* setup_scheduled_jobs is called once more, with an application that has a job
\* queue or with one that has none
CallSetup(has_job_queue) ==
    /\ started
    /\ Len(setup_log) < MaxSetupCalls
    /\ setup_scheduled_jobs(has_job_queue)
    /\ setup_log' = Append(setup_log, has_job_queue)
    /\ UNCHANGED <<config, dialog_history, daily_summary_log, started, clock, h,
                   job, n_updates, turns_appended, ret, update_queue, h2>>

\* ------------------------------------------------------------------ the clock

NextClock(c) ==
    IF c.point < Len(TimePoints) THEN Clock(c.day, c.point + 1)
    ELSE Clock(c.day + 1, 1)

\* the job queue calls the callbacks registered for this time of day
DueAt(c) ==
    {job_queue[i].callback : i \in {k \in 1..Len(job_queue) :
                                       job_queue[k].time = TimePoints[c.point]}}

\* time passes, up to the next moment the clock stops at.  The stops are hours
\* apart and the calls a job awaits time out within minutes, so no job is in
\* flight when the clock moves on; what is kept of the last runs is dropped
Tick ==
    /\ started
    /\ clock.point < Len(TimePoints) \/ clock.day < MaxDay
    /\ \A name \in JobNames : job[name].pc = "idle"
    /\ clock' = NextClock(clock)
    /\ job' = [name \in JobNames |->
                  IF name \in DueAt(clock') THEN [JobIdle EXCEPT !.pc = "due"]
                  ELSE JobIdle]
    /\ UNCHANGED <<config, dialog_history, daily_summary_log, _jobs_scheduled,
                   job_queue, started, h, n_updates, turns_appended,
                   update_queue, apart>>

\* -------------------------------------------------------------- specification

\* no handler has been called yet
NoHandler ==
    [pc |-> "idle", fn |-> "none", update |-> NoMessage,
     now |-> Clock(0, 1), branch |-> "none", weather_info |-> NoWeather,
     messages |-> <<>>, calls |-> 0, backend_ok |-> FALSE, ai_text |-> None,
     out_text |-> None, sends |-> 0, delivered |-> FALSE,
     raised |-> FALSE, history0 |-> [k \in Keys |-> <<>>]]

\* is_night_time has not been called
NoCall == [fn |-> "none", hour |-> 0, minute |-> 0, value |-> FALSE]

Init ==
    /\ GROUP_CHAT_ID \in GroupChatIdValues
    /\ TARGET_USER_ID \in TargetUserIdValues
    /\ client \in {None, <<"OpenAI">>}
    /\ dialog_history = [k \in Keys |-> <<>>]
    /\ daily_summary_log = [d \in Days |-> <<>>]
    /\ _jobs_scheduled = FALSE
    /\ job_queue = <<>>
    /\ started = FALSE
    /\ clock = Clock(0, 1)
    /\ h = NoHandler
    /\ h2 = NoHandler
    /\ setup_log = <<>>
    /\ ret = NoCall
    /\ update_queue = <<>>
    /\ job = [name \in JobNames |-> JobIdle]
    /\ n_updates = 0
    /\ turns_appended = [k \in Keys |-> <<>>]

Next ==
    \/ post_init
    \/ \E u \in FewPrivateUpdates :
          /\ n_updates < MaxLiveUpdates /\ echo_private(u)
          /\ UNCHANGED update_queue
    \/ \E u \in FewGroupUpdates :
          /\ n_updates < MaxLiveUpdates /\ handle_group_message(u)
          /\ UNCHANGED update_queue
    \/ WeatherFetched
    \/ \E resp \in ApiResponses : SamuilAnswerReturns(resp)
    \/ \E resp \in ApiResponses : SarcasticReplyReturns(resp)
    \/ SendReturns
    \/ good_morning_job
    \/ evening_summary_job
    \/ \E name \in JobNames, resp \in ApiResponses : JobCallReturns(name, resp)
    \/ \E name \in JobNames : JobSendReturns(name)
    \/ Tick

\* the whole program: updates are handled while the clock runs and the job queue
\* calls the jobs
Spec == Init /\ [][Next]_vars

\* the handlers alone: updates arrive and are handled while no job is due
NextUpdates ==
    \/ post_init
    \/ \E u \in PrivateUpdates :
          /\ n_updates < MaxUpdates /\ echo_private(u)
          /\ UNCHANGED update_queue
    \/ \E u \in GroupUpdates :
          /\ n_updates < MaxUpdates /\ handle_group_message(u)
          /\ UNCHANGED update_queue
    \/ WeatherFetched
    \/ \E resp \in ApiResponses : SamuilAnswerReturns(resp)
    \/ \E resp \in ApiResponses : SarcasticReplyReturns(resp)
    \/ SendReturns

SpecUpdates == Init /\ [][NextUpdates]_vars

\* is_night_time alone, called once with a datetime of any hour and minute
CallIsNightTime(hour, minute) ==
    /\ ret = NoCall
    /\ ret' = [fn |-> "is_night_time", hour |-> hour, minute |-> minute,
               value |-> is_night_time(hour)]
    /\ UNCHANGED <<config, dialog_history, daily_summary_log, _jobs_scheduled,
                   job_queue, started, clock, h, job, n_updates, turns_appended,
                   setup_log, update_queue, h2>>

NextNight == \E hour \in 0..23, minute \in 0..59 : CallIsNightTime(hour, minute)

SpecNight == Init /\ [][NextNight]_vars

\* the scheduling alone: setup_scheduled_jobs is called any number of times, the
\* clock runs, and a job callback may be called twice at its time of the day
NextJobs ==
    \/ post_init
    \/ \E has_job_queue \in BOOLEAN : CallSetup(has_job_queue)
    \/ Tick
    \/ good_morning_job
    \/ evening_summary_job
    \/ \E name \in JobNames, resp \in ApiResponses : JobCallReturns(name, resp)
    \/ \E name \in JobNames : JobSendReturns(name)
    \/ \E name \in JobNames : Retrigger(name)

SpecJobs == Init /\ [][NextJobs]_vars

\* the evening recap of a long day: with the target chat and the backend
\* configured, a user who is not Maxim writes numbered messages that address
\* nobody, the clock runs and the jobs are called
RecapUpdate ==
    Update(ChatG, UserO,
           NatStr(Len(daily_summary_log[TodayStr(clock)]) + 1), NoReply)

InitRecap ==
    /\ Init
    /\ GROUP_CHAT_ID = IntStr(ChatG.id)
    /\ TARGET_USER_ID = UserM.id
    /\ client # None

NextRecap ==
    \/ post_init
    \/ /\ n_updates < MaxRecapUpdates /\ handle_group_message(RecapUpdate)
       /\ UNCHANGED update_queue
    \/ Tick
    \/ good_morning_job
    \/ evening_summary_job
    \/ \E name \in JobNames, resp \in ApiResponses : JobCallReturns(name, resp)
    \/ \E name \in JobNames : JobSendReturns(name)

SpecRecap == InitRecap /\ [][NextRecap]_vars

\* one conversation at length: with the target chat, the primary subject and the
\* backend configured, one user of the target chat addresses Samuil again and
\* again; every message and every answer carries the number of the exchange,
\* and a message the backend failed for is sent again
MemKey == <<ChatG.id, UserO.id>>

ExchangeNo == Len(turns_appended[MemKey]) \div 2 + 1

\* every second message is a question
MemUpdate ==
    Update(ChatG, UserO,
           MentionName \o <<" ">> \o NatStr(ExchangeNo)
               \o (IF ExchangeNo % 2 = 0 THEN <<"?">> ELSE <<>>),
           NoReply)

\* the exchanges of the run the backend has failed for
MemFailures == n_updates - ExchangeNo

MemResponses ==
    {ApiContent(<<"Otvet ">> \o NatStr(ExchangeNo))}
    \cup (IF MemFailures < MaxMemFailures THEN {ApiRaises} ELSE {})

InitMem ==
    /\ Init
    /\ GROUP_CHAT_ID = IntStr(ChatG.id)
    /\ TARGET_USER_ID = UserM.id
    /\ client # None

NextMem ==
    \/ post_init
    \/ /\ n_updates < MaxMemUpdates /\ handle_group_message(MemUpdate)
       /\ UNCHANGED update_queue
    \/ \E resp \in MemResponses : SamuilAnswerReturns(resp)
    \/ SendReturns

SpecMem == InitMem /\ [][NextMem]_vars

\* people talk to Samuil: in the target chat both users reply to a message of the
\* bot, with a text that names Maxim and with one that does not, and one asks
\* Samuil for the weather
TalkUpdates ==
    {Update(ChatG, u, t, ReplyToBot) : u \in Users, t \in {TextPrivet, TextMaksim}}
    \cup {Update(ChatG, UserO, TextPogoda, NoReply)}

NextTalk ==
    \/ post_init
    \/ \E u \in TalkUpdates :
          /\ n_updates < MaxTalkUpdates /\ handle_group_message(u)
          /\ UNCHANGED update_queue
    \/ WeatherFetched
    \/ \E resp \in ApiResponses : SamuilAnswerReturns(resp)
    \/ SendReturns

SpecTalk == Init /\ [][NextTalk]_vars

\* the updates as the application takes them: people of the target chat reply
\* to messages of the bot, the updates wait in the update queue, and the
\* application takes them from it and calls the handler
DispatchUpdates ==
    {Update(ChatG, u, t, ReplyToBot) : u \in Users, t \in {TextPrivet, TextMaksim}}

\* Telegram delivers an update
Receive(u) ==
    /\ started
    /\ n_updates + Len(update_queue) < MaxReceived
    /\ update_queue' = Append(update_queue, u)
    /\ UNCHANGED <<config, dialog_history, daily_summary_log, _jobs_scheduled,
                   job_queue, started, clock, h, job, n_updates, turns_appended,
                   apart>>

\* the application takes the next update from the queue.  Without concurrent
\* updates it does so when the handler of the update before has returned; with
\* them it starts the handler as a task of its own
update_fetcher ==
    /\ update_queue # <<>>
    /\ update_queue' = Tail(update_queue)
    /\ IF concurrent_updates
       THEN \/ handle_group_message(Head(update_queue))
            \/ /\ h.pc # "idle"
               /\ handle_group_message_as(Head(update_queue), h2, h2')
               /\ UNCHANGED h
       ELSE handle_group_message(Head(update_queue))

InitDispatch ==
    /\ Init
    /\ GROUP_CHAT_ID = IntStr(ChatG.id)
    /\ TARGET_USER_ID = UserM.id
    /\ client # None

NextDispatch ==
    \/ post_init
    \/ \E u \in DispatchUpdates : Receive(u)
    \/ update_fetcher
    \/ \E resp \in ApiResponses : SamuilAnswerReturns(resp)
    \/ SendReturns

SpecDispatch == InitDispatch /\ [][NextDispatch]_vars

\* ----------------------------------------------------------------- the claims

\* the last handler call, or the one in flight, is of handle_group_message for
\* an update with a message
GroupCall == h.fn = "handle_group_message" /\ h.update.has_message

\* the message of that call is in the target chat, or no target chat filters
InTargetChat ==
    ~(GROUP_CHAT_ID # None /\ GROUP_CHAT_ID # <<>> /\ IntParses(GROUP_CHAT_ID)
      /\ h.update.chat.id # IntOf(GROUP_CHAT_ID))

\* its text names Samuil in any case of letters, or it replies to the bot
NamesSamuil ==
    \E i \in 1..Len(h.update.text) :
        /\ i + 5 <= Len(h.update.text)
        /\ Lower(SubSeq(h.update.text, i, i + 5)) = <<"s", "a", "m", "u", "i", "l">>

RepliesToBot == h.update.reply = ReplyToBot

FromPrimarySubject == TARGET_USER_ID # 0 /\ h.update.user.id = TARGET_USER_ID

\* the handler has returned, or an exception has ended it
Finished == h.pc = "idle"

\* C1: a group message that passes the target-chat filter and names Samuil (in
\* any case) or replies to the bot is answered on the addressed branch, by
\* generate_samuil_answer, and never on the sarcastic branch of the primary
\* subject, whoever sent it
C1_AddressedFirst ==
    (GroupCall /\ InTargetChat /\ (NamesSamuil \/ RepliesToBot))
        => /\ h.branch = "addressed"
           /\ h.pc \in {"weather", "samuil", "send", "idle"}
           /\ h.calls > 0 =>
                 Contains(h.messages[2].content,
                          <<"Ty v gruppovom chate, otvechaesh na pryamoe obrashchenie.">>)

\* a message of the primary subject that names Samuil in capitals is being
\* answered on the addressed branch
C1_Witness ==
    /\ GroupCall /\ InTargetChat /\ NamesSamuil /\ FromPrimarySubject
    /\ h.update.text = TextSamuilQ
    /\ h.branch = "addressed" /\ h.pc = "send"

\* C2: with a target group configured, handling a group message of another chat
\* makes no backend call, sends nothing and leaves dialog_history and
\* daily_summary_log as they were, whatever the sender and the text
C2_OtherChatIgnored ==
    [][(/\ n_updates' = n_updates + 1
        /\ h'.fn = "handle_group_message"
        /\ h'.update.has_message
        /\ IntParses(GROUP_CHAT_ID)
        /\ h'.update.chat.id # IntOf(GROUP_CHAT_ID))
           => /\ h'.pc = "idle"
              /\ h'.calls = 0
              /\ h'.sends = 0
              /\ dialog_history' = dialog_history
              /\ daily_summary_log' = daily_summary_log]_vars

\* a message of the primary subject in another chat that replies to the bot has
\* been dropped by the filter
C2_Witness ==
    /\ GroupCall /\ ~InTargetChat /\ FromPrimarySubject /\ RepliesToBot
    /\ Finished /\ h.branch = "filtered"

NotAddressed == ~NamesSamuil /\ ~RepliesToBot

\* C3, as claimed: a message of the primary subject in the target chat that is
\* not addressed to Samuil always gets exactly one message sent
C3_AlwaysOneReply ==
    (GroupCall /\ InTargetChat /\ NotAddressed /\ FromPrimarySubject /\ Finished)
        => h.sends = 1

\* C3, amended: such a message is either passed over by the random skip, with
\* no backend call and nothing sent, or answered by one backend call and one
\* send_message of the generated text or of a sarcastic fallback
C3_OneReplyOrSkip ==
    (GroupCall /\ InTargetChat /\ NotAddressed /\ FromPrimarySubject /\ Finished)
        => \/ h.branch = "skipped" /\ h.calls = 0 /\ h.sends = 0
           \/ /\ h.branch = "primary" /\ h.calls = 1 /\ h.sends = 1
              /\ IF h.ai_text # None THEN h.out_text = h.ai_text
                 ELSE h.out_text \in MaximFallbacks

\* a message of the primary subject was not skipped, and its answer went out
C3_Witness ==
    /\ GroupCall /\ InTargetChat /\ NotAddressed /\ FromPrimarySubject /\ Finished
    /\ h.branch = "primary" /\ h.sends = 1 /\ h.delivered

\* C4: a group message that is not addressed to Samuil and not sent by the
\* primary subject (or with none configured) gets no send and no backend call
C4_OthersIgnored ==
    (GroupCall /\ NotAddressed /\ ~FromPrimarySubject)
        => h.pc = "idle" /\ h.sends = 0 /\ h.calls = 0

\* a reply to another user's message, in the target chat, was passed in silence
C4_Witness ==
    /\ GroupCall /\ InTargetChat /\ NotAddressed /\ ~FromPrimarySubject
    /\ h.update.reply = ReplyToUser /\ h.branch = "silent" /\ Finished

\* C5: echo_private answers every message of a private chat with exactly one
\* reply_text, and does nothing in a chat that is not private
C5_PrivateAlwaysAnswered ==
    (h.fn = "echo_private" /\ h.update.has_message)
        => IF h.update.chat.type = "private"
           THEN /\ h.sends = 1
                /\ h.out_text = <<"Ty napisal: ">> \o h.update.text
                /\ h.calls = 0
           ELSE h.pc = "idle" /\ h.sends = 0 /\ h.calls = 0

\* a message of a private chat was echoed, and the reply went out
C5_Witness ==
    /\ h.fn = "echo_private" /\ h.update.chat = ChatP /\ h.update.has_message
    /\ Finished /\ h.sends = 1 /\ h.delivered

\* the conversation key of the message being handled
HandledKey == <<h.update.chat.id, h.update.user.id>>

\* call_openai_chat has returned to the handler, with a text or with None
BackendAnswered == h.calls = 1 /\ h.pc \in {"send", "idle"}

\* C7: when the backend succeeds for an addressed message, the history of the
\* message's key ends with the new user turn followed by the generated assistant
\* turn, these two come after the turns stored before, nothing else was added,
\* and the generated text is what generate_samuil_answer returns
C7_SuccessAppendsExchange ==
    (GroupCall /\ h.branch = "addressed" /\ BackendAnswered /\ h.backend_ok)
        => LET now_ == dialog_history[HandledKey]
               before == h.history0[HandledKey]
               n == Len(now_)
           IN  /\ n >= 2
               /\ now_[n - 1] = [role |-> "user", content |-> h.update.text]
               /\ now_[n] = [role |-> "assistant", content |-> h.ai_text]
               /\ n - 2 <= Len(before)
               /\ SubSeq(now_, 1, n - 2)
                    = SubSeq(before, Len(before) - (n - 2) + 1, Len(before))
               /\ Len(before) + 2 <= 30 => n = Len(before) + 2
               /\ h.out_text = h.ai_text

\* a second exchange on a key: the two new turns follow the two stored ones
C7_Witness ==
    /\ GroupCall /\ h.branch = "addressed" /\ BackendAnswered /\ h.backend_ok
    /\ Len(h.history0[HandledKey]) = 2
    /\ Len(dialog_history[HandledKey]) = 4

\* C8: when the backend fails for a live message (no client, an exception, a
\* malformed response), nothing is appended to the conversation memory: every
\* key's history is as it was when the handler started
C8_FailureLeavesHistory ==
    (h.fn = "handle_group_message" /\ BackendAnswered /\ ~h.backend_ok)
        => dialog_history = h.history0

\* the backend failed for an addressed message on a key that has a history
C8_Witness ==
    /\ GroupCall /\ h.branch = "addressed" /\ BackendAnswered /\ ~h.backend_ok
    /\ Finished /\ h.history0[HandledKey] # <<>>
    /\ dialog_history = h.history0

\* C9: when the backend fails or is not configured for a message the agent
\* answers, the generation call hands no exception to the handler, which sends
\* one of the four fallbacks of the message's kind, never an error text
C9_FailureSendsFallback ==
    (h.fn = "handle_group_message" /\ BackendAnswered /\ ~h.backend_ok)
        => /\ h.sends = 1
           /\ h.pc = "send" => ~h.raised
           /\ h.branch = "addressed" =>
                 h.out_text \in
                    {<<"Segodnya neyroseti chto-to priunyli. Poprobuy pozzhe.">>,
                     <<"Moy sarkasticheskiy modul na perezagruzke.">>,
                     <<"Inogda dazhe mne nechego skazat. Vot tak.">>,
                     <<"Poprobuy pereformulirovat, a to ya segodnya v zadumchivom nastroenii.">>}
           /\ h.branch = "primary" =>
                 h.out_text \in
                    {<<"Maksim, ya dazhe ne znayu, chto skazat... Tolko ty mog takoe napisat.">>,
                     <<"Vot eto povorot. Dazhe moy sarkazm ne spravlyaetsya.">>,
                     <<"Interesno. No ne nastolko, chtoby ya nashel, chto otvetit.">>,
                     <<"Prodolzhay v tom zhe duhe, a ya poka podumayu nad otvetom.">>}
           /\ h.branch \in {"addressed", "primary"}

\* with a client configured the backend failed for a message of the primary
\* subject, and a sarcastic fallback went out
C9_Witness ==
    /\ GroupCall /\ h.branch = "primary" /\ BackendAnswered /\ ~h.backend_ok
    /\ client # None /\ Finished /\ h.delivered

\* C6: the history of every key holds at most 30 turns, they are the turns
\* appended last, in the order of appending (so past 30 the turns appended first
\* are the absent ones), and the turn appended last is the last of the stored
\* turns that the next call of generate_samuil_answer reads for the backend
C6_FifoBoundedHistory ==
    \A key \in Keys :
        LET appended == turns_appended[key]
            stored == dialog_history[key]
            absent == Len(appended) - Len(stored)
        IN  /\ Len(stored) <= 30
            /\ Len(stored) = IF Len(appended) < 30 THEN Len(appended) ELSE 30
            /\ \A i \in 1..Len(stored) : stored[i] = appended[absent + i]
            /\ (/\ GroupCall /\ h.pc = "samuil" /\ HandledKey = key
                /\ appended # <<>>)
                  => LET read == IF Len(stored) < 8 THEN Len(stored) ELSE 8
                     IN  h.messages[2 + read] = appended[Len(appended)]

\* the sixteenth exchange on a key has overfilled its history, and the next
\* message on the key is being answered
C6_Witness ==
    /\ Len(turns_appended[MemKey]) = 32
    /\ Len(dialog_history[MemKey]) = 30
    /\ dialog_history[MemKey][1] # turns_appended[MemKey][1]
    /\ GroupCall /\ h.pc = "samuil" /\ HandledKey = MemKey

\* C11: when a job callback is called a second time at its time of a day and
\* an earlier call of that day has got its message out, the second call sends
\* nothing
C11_SecondCallSilent ==
    \A name \in JobNames : job[name].sent_before > 0 => job[name].sends = 0

\* C12: once setup_scheduled_jobs has been called with a job queue, however often
\* it is called the queue holds exactly one good_morning_job at 07:30 and exactly
\* one evening_summary_job at 21:00 and the jobs are marked scheduled; calls
\* without a job queue register nothing and mark nothing, so that a later call
\* with a job queue registers the jobs
C12_RegisteredOnce ==
    LET with_queue == \E i \in 1..Len(setup_log) : setup_log[i]
        Entries(name, time) ==
            {i \in 1..Len(job_queue) :
                /\ job_queue[i].name = name
                /\ job_queue[i].callback = name
                /\ job_queue[i].time = time}
    IN  IF with_queue
        THEN /\ _jobs_scheduled
             /\ Len(job_queue) = 2
             /\ Cardinality(Entries("good_morning_job", <<7, 30>>)) = 1
             /\ Cardinality(Entries("evening_summary_job", <<21, 0>>)) = 1
        ELSE ~_jobs_scheduled /\ job_queue = <<>>

\* a call without a job queue, then two calls with one: the jobs are there once
C12_Witness ==
    /\ setup_log = <<FALSE, TRUE, TRUE>>
    /\ Len(job_queue) = 2 /\ _jobs_scheduled

\* C13: every send_message of good_morning_job and of evening_summary_job is
\* made at a time of the day for which is_night_time is false
C13_NoSendAtNight ==
    \A name \in JobNames :
        job[name].sends > 0 => ~is_night_time(Hour(job[name].sent_at))

\* evening_summary_job has got its message out at 21:00, its time of the day
C13_Witness ==
    /\ job["evening_summary_job"].delivered
    /\ Hour(job["evening_summary_job"].sent_at) = 21
    /\ Hour(clock) = 21
    /\ ~is_night_time(Hour(clock))

\* C14: is_night_time is true exactly for the times of day with hour >= 22 or
\* hour < 7: false at 21:59, true at 22:00, true at 06:59, false at 07:00
C14_NightWindow ==
    ret.fn = "is_night_time"
        => /\ ret.value <=> (ret.hour >= 22 \/ ret.hour < 7)
           /\ (ret.hour = 21 /\ ret.minute = 59) => ~ret.value
           /\ (ret.hour = 22 /\ ret.minute = 0) => ret.value
           /\ (ret.hour = 6 /\ ret.minute = 59) => ret.value
           /\ (ret.hour = 7 /\ ret.minute = 0) => ~ret.value

\* is_night_time was called for 22:00, the first minute of the night
C14_Witness ==
    ret.fn = "is_night_time" /\ ret.hour = 22 /\ ret.minute = 0 /\ ret.value

\* C15: after evening_summary_job has run for a day, the entries of that day it
\* found in daily_summary_log are in the log no more
C15_LogCleared ==
    LET me == job["evening_summary_job"]
        log == daily_summary_log[me.today_str]
    IN  (me.ran /\ me.pc = "idle" /\ me.messages_today # <<>>)
            => ~(/\ Len(log) >= Len(me.messages_today)
                 /\ SubSeq(log, 1, Len(me.messages_today)) = me.messages_today)

\* C19: an entry handle_group_message has logged is, once evening_summary_job
\* has run, among the entries the job read or still in the log of its day
C19_LoggedNotLost ==
    LET me == job["evening_summary_job"]
        entry == LogEntry(h.update.user, OrEmpty(h.update.text))
        log == daily_summary_log[TodayStr(h.now)]
    IN  (/\ GroupCall /\ h.branch \in {"addressed", "primary", "skipped", "silent"}
         /\ me.ran /\ me.pc = "idle")
            => \/ \E i \in 1..Len(log) : log[i] = entry
               \/ \E i \in 1..Len(me.messages_today) :
                     me.messages_today[i] = entry

\* C16, as claimed: the entries evening_summary_job puts in its prompt are a
\* suffix of the day's log, in logged order, and at most 10
C16_ExcerptIsSuffix ==
    LET me == job["evening_summary_job"]
    IN  me.calls = 1
            => /\ Len(me.sample_messages) <= 10
               /\ me.sample_messages
                    = LastN(me.messages_today, Len(me.sample_messages))

\* C16, amended: the entries are at most 10; of a log of at most 10 entries they
\* are the whole log in logged order, of a longer log they are 8 entries at
\* different places among the last 20 (the logged entries all differ here), in
\* whatever order; and they are what the prompt shows of the day
C16_ExcerptBounded ==
    LET me == job["evening_summary_job"]
        log == me.messages_today
        ex == me.sample_messages
        last20 == IF Len(log) <= 20 THEN log
                  ELSE SubSeq(log, Len(log) - 19, Len(log))
    IN  me.calls = 1
            => /\ Len(ex) <= 10
               /\ Len(log) <= 10 => ex = log
               /\ Len(log) > 10 =>
                     /\ Len(ex) = 8
                     /\ \A i \in 1..8 : \E j \in 1..Len(last20) : ex[i] = last20[j]
                     /\ \A i, j \in 1..8 : i # j => ex[i] # ex[j]
               /\ ex # <<>> =>
                     Contains(me.messages[2].content, Join(<<"\n">>, ex))

\* of a day of 11 messages the recap went out with 8 of them that are no suffix
\* of the log
C16_Witness ==
    LET me == job["evening_summary_job"]
    IN  /\ me.delivered
        /\ Len(me.messages_today) = 11
        /\ Len(me.sample_messages) = 8
        /\ me.sample_messages # LastN(me.messages_today, 8)

\* C17: the role description generate_samuil_answer gives to the backend holds
\* the block about Maxim exactly when the sender is TARGET_USER_ID or the text
\* names Maxim in any case of letters; so never for another sender whose text
\* does not name him
C17_BiographyOnlyAboutMaxim ==
    (GroupCall /\ h.branch = "addressed" /\ h.messages # <<>>)
        => LET about ==
                   \/ h.update.user.id = TARGET_USER_ID
                   \/ Contains(Lower(OrEmpty(h.update.text)), MaximName)
               role_description == h.messages[1]
           IN  /\ role_description.role = "system"
               /\ Contains(role_description.content, PromptBase)
               /\ Contains(role_description.content, PromptMaximCtx) <=> about

\* Samuil answers a user who is not Maxim and does not name him, with Maxim's
\* id configured, and the role description is the plain one
C17_Witness ==
    /\ GroupCall /\ h.branch = "addressed" /\ h.pc = "samuil"
    /\ TARGET_USER_ID = UserM.id
    /\ h.update.user = UserO
    /\ h.update.text = TextPrivet
    /\ h.messages[1].content = PromptBase

\* C20, as claimed: the list given to the backend for an addressed message is
\* the role description, then the stored turns of the key in stored order, then
\* the new user turn as its last element
C20_SystemHistoryUser ==
    (GroupCall /\ h.branch = "addressed" /\ h.messages # <<>>)
        => LET stored == h.history0[HandledKey]
           IN  /\ Len(h.messages) = Len(stored) + 2
               /\ h.messages[1].role = "system"
               /\ \A i \in 1..Len(stored) : h.messages[1 + i] = stored[i]
               /\ h.messages[Len(h.messages)]
                     = Turn("user", OrEmpty(h.update.text))

\* C20: the list given to the backend for an addressed message is the role
\* description, then a user turn with the context of the moment, then the last
\* 8 stored turns of the key (all of them when there are fewer) in stored
\* order, then the new user turn, and after it, when the text has a question
\* mark, a system turn with a hint, and nothing else
C20_ContextWindowHint ==
    (GroupCall /\ h.branch = "addressed" /\ h.messages # <<>>)
        => LET stored == h.history0[HandledKey]
               user_text == OrEmpty(h.update.text)
               read == IF Len(stored) < 8 THEN Len(stored) ELSE 8
               asks == \E i \in 1..Len(user_text) : user_text[i] = "?"
           IN  /\ Len(h.messages) = 3 + read + (IF asks THEN 1 ELSE 0)
               /\ h.messages[1].role = "system"
               /\ Contains(h.messages[1].content, PromptBase)
               /\ h.messages[2].role = "user"
               /\ h.messages[2].content[1] = "Segodnya "
               /\ \A i \in 1..read :
                     h.messages[2 + i] = stored[Len(stored) - read + i]
               /\ h.messages[3 + read] = Turn("user", user_text)
               /\ asks => h.messages[4 + read] = Turn("system", QuestionHint)

\* the sixth message of a conversation, a question, is being answered: five
\* exchanges are stored, and the list holds the last four of them
C20_Witness ==
    /\ GroupCall /\ h.branch = "addressed" /\ h.pc = "samuil"
    /\ HandledKey = MemKey
    /\ Len(h.history0[MemKey]) = 10
    /\ Len(h.messages) = 12
    /\ h.messages[3] = h.history0[MemKey][3]
    /\ h.messages[12].role = "system"

\* C18: a handler that awaits the backend for an addressed message has built
\* its context from the history of its key as it still is (no exchange of the
\* key has been appended since it read it, so no two exchanges of a key are
\* between their read and their append together); every exchange appends its
\* user turn and then its own assistant turn, next to each other; and the
\* stored history of a key ends with the turns appended last, in that order
C18_ExchangesSerialized ==
    /\ \A rec \in {h, h2} :
          LET key == <<rec.update.chat.id, rec.update.user.id>>
              appended == turns_appended[key]
          IN  /\ (rec.fn = "handle_group_message" /\ rec.pc = "samuil")
                    => dialog_history[key] = rec.history0[key]
              /\ (/\ rec.fn = "handle_group_message"
                  /\ rec.branch = "addressed"
                  /\ rec.pc \in {"send", "idle"}
                  /\ rec.ai_text # None)
                    => \E i \in 1..Len(appended) - 1 :
                          /\ i % 2 = 1
                          /\ appended[i] = Turn("user", OrEmpty(rec.update.text))
                          /\ appended[i + 1] = Turn("assistant", rec.ai_text)
    /\ ~(/\ h.pc = "samuil" /\ h2.pc = "samuil"
         /\ h.update.chat.id = h2.update.chat.id
         /\ h.update.user.id = h2.update.user.id)
    /\ \A key \in Keys :
          LET appended == turns_appended[key]
              stored == dialog_history[key]
          IN  /\ Len(appended) % 2 = 0
              /\ \A i \in 1..Len(appended) :
                    appended[i].role = IF i % 2 = 1 THEN "user" ELSE "assistant"
              /\ Len(stored) <= Len(appended)
              /\ \A i \in 1..Len(stored) :
                    stored[i] = appended[Len(appended) - Len(stored) + i]

\* while the handler awaits the backend for the second message of a
\* conversation, with the first exchange in its context, a third message of
\* the same conversation waits in the update queue
C18_Witness ==
    /\ GroupCall /\ h.pc = "samuil"
    /\ Len(h.history0[HandledKey]) = 2
    /\ h.messages[3] = turns_appended[HandledKey][1]
    /\ update_queue # <<>>
    /\ Head(update_queue).chat.id = h.update.chat.id
    /\ Head(update_queue).user.id = h.update.user.id

\* C21: when handle_group_message answers a message of Maxim that addresses
\* nobody, the list given to the backend holds the stored turns of the key after
\* the role description, and once the backend has answered, the history of the
\* key ends with the user turn of the message and the assistant turn of the
\* answer
C21_PrimaryExchangeRemembered ==
    (GroupCall /\ h.branch = "primary" /\ h.messages # <<>>)
        => LET before == h.history0[HandledKey]
               stored == dialog_history[HandledKey]
               read == IF Len(before) < 8 THEN Len(before) ELSE 8
           IN  /\ h.messages[1].role = "system"
               /\ Len(h.messages) >= 2 + read
               /\ \E at \in 1..2 : \A i \in 1..read :
                     h.messages[at + i] = before[Len(before) - read + i]
               /\ (h.pc \in {"send", "idle"} /\ h.ai_text # None)
                     => /\ Len(stored) >= 2
                        /\ stored[Len(stored) - 1]
                              = Turn("user", OrEmpty(h.update.text))
                        /\ stored[Len(stored)] = Turn("assistant", h.ai_text)

\* C22: the stored history of every key has an even length of at most 30 and
\* its roles alternate from a user turn on; and the stored turns in the list
\* given to the backend for an addressed message, at most 8, are whole
\* exchanges of the stored history, a user turn first
C22_WholeExchanges ==
    /\ \A key \in Keys :
          LET stored == dialog_history[key]
          IN  /\ Len(stored) % 2 = 0
              /\ Len(stored) <= 30
              /\ \A i \in 1..Len(stored) :
                    stored[i].role = IF i % 2 = 1 THEN "user" ELSE "assistant"
    /\ (GroupCall /\ h.branch = "addressed" /\ h.messages # <<>>)
          => LET before == h.history0[HandledKey]
                 read == IF Len(before) < 8 THEN Len(before) ELSE 8
                 window == [i \in 1..read |-> h.messages[2 + i]]
             IN  /\ read % 2 = 0
                 /\ \A i \in 1..read :
                       window[i].role = IF i % 2 = 1 THEN "user" ELSE "assistant"
                 /\ \A i \in 1..read :
                       i % 2 = 1
                         => \E j \in 1..Len(before) - 1 :
                               /\ j % 2 = 1
                               /\ before[j] = window[i]
                               /\ before[j + 1] = window[i + 1]

\* the history of a key is full, 30 turns, and the next message on the key is
\* being answered with 8 stored turns in the list, a user turn first
C22_Witness ==
    /\ GroupCall /\ h.branch = "addressed" /\ h.pc = "samuil"
    /\ Len(dialog_history[HandledKey]) = 30
    /\ Len(h.messages) >= 11
    /\ h.messages[3].role = "user"
    /\ h.messages[10].role = "assistant"

\* C23: while and after handle_group_message handles a message of a key, the
\* stored history of every other key is as it was when the handler was called;
\* and the stored turns in the list given to the backend for an addressed
\* message are turns of the history of the message's own key, its last ones
C23_KeysIsolated ==
    GroupCall
        => /\ \A key \in Keys \ {HandledKey} :
                 dialog_history[key] = h.history0[key]
           /\ (h.branch = "addressed" /\ h.messages # <<>>)
                 => LET before == h.history0[HandledKey]
                        read == IF Len(before) < 8 THEN Len(before) ELSE 8
                        hint == IF h.messages[Len(h.messages)].role = "system"
                                THEN 1 ELSE 0
                    IN  /\ Len(h.messages) = 3 + read + hint
                        /\ \A i \in 1..read :
                              h.messages[2 + i] = before[Len(before) - read + i]

\* two senders of one chat have each a stored exchange, their histories have no
\* turn in common, and the next message of one of them is being answered with
\* the turns of its own key and none of the other's
C23_Witness ==
    /\ GroupCall /\ h.branch = "addressed" /\ h.pc = "samuil"
    /\ h.update.user = UserM
    /\ LET mine == h.history0[<<h.update.chat.id, UserM.id>>]
           others == h.history0[<<h.update.chat.id, UserO.id>>]
       IN  /\ Len(mine) = 2 /\ Len(others) = 2
           /\ \A i \in 1..2, j \in 1..2 : mine[i] # others[j]
           /\ h.messages[3] = mine[1] /\ h.messages[4] = mine[2]
           /\ \A i \in 1..Len(h.messages), j \in 1..2 :
                 h.messages[i] # others[j]

\* C24: the call of handle_group_message for a message that passes the filter
\* by GROUP_CHAT_ID appends "author: text" once to the log of the current day,
\* on whatever branch the handler goes on; and no later step of a handler (the
\* backend answering or failing, the send) changes a log
C24_LoggedOnceBeforeDecision ==
    [][/\ (/\ n_updates' = n_updates + 1
           /\ h'.fn = "handle_group_message"
           /\ h'.update.has_message
           /\ ~(/\ GROUP_CHAT_ID # None /\ GROUP_CHAT_ID # <<>>
                /\ IntParses(GROUP_CHAT_ID)
                /\ h'.update.chat.id # IntOf(GROUP_CHAT_ID)))
              => LET today == daily_summary_log[TodayStr(clock)]
                     entry == AuthorName(h'.update.user) \o <<": ">>
                                \o OrEmpty(h'.update.text)
                 IN  /\ daily_summary_log'[TodayStr(clock)]
                           = today \o <<entry>>
                     /\ \A d \in Days \ {TodayStr(clock)} :
                           daily_summary_log'[d] = daily_summary_log[d]
                     /\ h'.branch
                           \in {"addressed", "primary", "skipped", "silent"}
       /\ (n_updates' = n_updates /\ h' # h)
              => daily_summary_log' = daily_summary_log]_vars

\* the backend has failed for a message of Maxim that addresses nobody, and the
\* message is in the log of the day, once
C24_Witness ==
    /\ GroupCall /\ h.branch = "primary" /\ BackendAnswered /\ ~h.backend_ok
    /\ LET today == daily_summary_log[TodayStr(h.now)]
           entry == LogEntry(h.update.user, OrEmpty(h.update.text))
       IN  /\ Cardinality({i \in 1..Len(today) : today[i] = entry}) = 1
           /\ today[Len(today)] = entry

\* C25: handling one group message calls the generation backend at most once
\* and attempts at most one send: on the addressed branch the handler returns
\* after one call and one attempted send, of the generated text or else of one
\* fallback; on the branch of the primary subject after at most one; and on
\* every other path there is no call and no send
C25_AtMostOneSend ==
    h.fn = "handle_group_message"
        => /\ h.calls <= 1
           /\ h.sends <= 1
           /\ h.sends <= h.calls
           /\ (h.branch = "addressed" /\ Finished)
                 => /\ h.calls = 1 /\ h.sends = 1
                    /\ IF h.ai_text # None THEN h.out_text = h.ai_text
                       ELSE h.out_text \in QaFallbacks
           /\ (h.branch = "primary" /\ Finished)
                 => IF h.ai_text # None THEN h.out_text = h.ai_text
                    ELSE h.out_text \in MaximFallbacks
           /\ h.branch \notin {"addressed", "primary"}
                 => h.calls = 0 /\ h.sends = 0 /\ h.out_text = None

\* the one send of an answer to an addressed message has failed, and the
\* handler has ended without another
C25_Witness ==
    /\ GroupCall /\ h.branch = "addressed" /\ Finished
    /\ h.backend_ok /\ h.raised /\ ~h.delivered
    /\ h.sends = 1 /\ h.calls = 1

\* C10: when a job is called with a target chat configured and its generation
\* call fails, the job still sends a message to the target chat
C10_JobSendsOnFailure ==
    \A name \in JobNames :
        (/\ job[name].ran /\ job[name].pc = "idle"
         /\ IntParses(GROUP_CHAT_ID)
         /\ job[name].calls = 1 /\ ~job[name].backend_ok)
            => job[name].sends = 1

====
